---- MODULE Spec2Model ----
(***************************************************************************)
(* Model of Hackpad's Firmware/Programm.py: nine LED switches, a           *)
(* brightness encoder and a volume encoder driving a NeoPixel strip and    *)
(* the system master volume.                                               *)
(*                                                                         *)
(* Python floats are IEEE-754 binary64.  Every float the program computes  *)
(* is a multiple of 2^-59 (0.5, 1.0, k*0.02 rounded, 0.01, and sums and    *)
(* differences of such values), so a float is modelled exactly as a        *)
(* natural number of units of 2^-59, held in three limbs <<hi, mid, lo>>   *)
(* of base 2^20 (TLC integers are 32 bits wide), and every arithmetic      *)
(* result is rounded to 53 significant bits, ties to even, as the          *)
(* hardware does.                                                          *)
(***************************************************************************)
EXTENDS Integers, Sequences, FiniteSets, TLC

\* ------------------------------------------------------------------ floats
Base == 2^20

\* limbs with carries or borrows propagated (hi takes what is left)
Norm(h, m, l) ==
    LET m1 == m + (l \div Base)
    IN  << h + (m1 \div Base), m1 % Base, l % Base >>

DLess(x, y) ==
    \/ x[1] < y[1]
    \/ x[1] = y[1] /\ x[2] < y[2]
    \/ x[1] = y[1] /\ x[2] = y[2] /\ x[3] < y[3]

DAddExact(x, y) == Norm(x[1] + y[1], x[2] + y[2], x[3] + y[3])

\* x - y for y <= x
DSubExact(x, y) == Norm(x[1] - y[1], x[2] - y[2], x[3] - y[3])

DMulExact(x, k) == Norm(x[1] * k, x[2] * k, x[3] * k)

RECURSIVE BitLen(_)
BitLen(n) == IF n = 0 THEN 0 ELSE 1 + BitLen(n \div 2)

\* round to nearest, ties to even, at 53 significant bits: the hi limb starts
\* at bit 40, so a value whose hi limb has more than 13 bits loses low bits
RoundDouble(x) ==
    IF x[1] < 2^13 THEN x
    ELSE LET ulp  == 2^(BitLen(x[1]) - 13)
             r    == x[3] % ulp
             odd  == (x[3] \div ulp) % 2 = 1
             up   == (2 * r > ulp) \/ (2 * r = ulp /\ odd)
         IN  Norm(x[1], x[2], x[3] - r + (IF up THEN ulp ELSE 0))

\* the float literals of the program, in units of 2^-59
F0_0  == << 0, 0, 0 >>
F1_0  == << 524288, 0, 0 >>
F0_5  == << 262144, 0, 0 >>
F0_02 == << 10485, 796917, 796918 >>
F0_01 == << 5242, 922746, 922747 >>

Abs(n) == IF n < 0 THEN -n ELSE n

\* Python's min and max on ints
Min(a, b) == IF b < a THEN b ELSE a

Max(a, b) == IF b > a THEN b ELSE a

\* a signed float: [neg |-> sign, mag |-> magnitude]
Float(m) == [neg |-> FALSE, mag |-> m]

\* int * float
FMulInt(k, f) == [neg |-> (k < 0) /\ f.mag # F0_0,
                  mag |-> RoundDouble(DMulExact(f.mag, Abs(k)))]

\* float + float
FAdd(a, b) ==
    IF a.neg = b.neg
    THEN [neg |-> a.neg, mag |-> RoundDouble(DAddExact(a.mag, b.mag))]
    ELSE IF DLess(a.mag, b.mag)
         THEN [neg |-> b.neg, mag |-> RoundDouble(DSubExact(b.mag, a.mag))]
         ELSE [neg |-> a.neg /\ a.mag # b.mag,
               mag |-> RoundDouble(DSubExact(a.mag, b.mag))]

FNeg(a) == [neg |-> ~a.neg /\ a.mag # F0_0, mag |-> a.mag]

FSub(a, b) == FAdd(a, FNeg(b))

FAbs(a) == [neg |-> FALSE, mag |-> a.mag]

FLess(a, b) ==
    IF a.neg /\ ~b.neg THEN TRUE
    ELSE IF ~a.neg /\ b.neg THEN FALSE
    ELSE IF a.neg THEN DLess(b.mag, a.mag)
    ELSE DLess(a.mag, b.mag)

\* Python's min(a, b) and max(a, b): the first argument unless the second is
\* strictly smaller (larger)
FMin(a, b) == IF FLess(b, a) THEN b ELSE a

FMax(a, b) == IF FLess(a, b) THEN b ELSE a

\* floor of n / d and the remainder, d a small positive integer
DDivSmall(n, d) ==
    LET t2 == (n[1] % d) * Base + n[2]
        t3 == (t2 % d) * Base + n[3]
    IN  [q |-> << n[1] \div d, t2 \div d, t3 \div d >>, rem |-> t3 % d]

\* int / float for a float that is a small positive integer d (vol / 100.0):
\* the quotient k * 2^59 / d rounded to 53 significant bits, ties to even
\* (exact in these units for k = 0 and for |k| >= d / 100)
FDivInt(k, d) ==
    LET qr  == DDivSmall(<< Abs(k) * 2^19, 0, 0 >>, d)
        q   == qr.q
        ulp == IF q[1] < 2^13 THEN 1 ELSE 2^(BitLen(q[1]) - 13)
        r   == q[3] % ulp
        odd == (q[3] \div ulp) % 2 = 1
        twice == 2 * r * d + 2 * qr.rem
        up  == (twice > ulp * d) \/ (twice = ulp * d /\ odd)
    IN  [neg |-> k < 0,
         mag |-> Norm(q[1], q[2], q[3] - r + (IF up THEN ulp ELSE 0))]

\* ----------------------------------------------------------- configuration
NUM_LEDS == 9

MAX_STEPS == 100

LEDS == 0 .. NUM_LEDS - 1

BLACK == << 0, 0, 0 >>

led_colors ==
    [i \in LEDS |->
        << << 255, 0, 0 >>, << 0, 255, 0 >>, << 0, 0, 255 >>,
           << 255, 255, 0 >>, << 0, 255, 255 >>, << 255, 0, 255 >>,
           << 255, 165, 0 >>, << 128, 0, 128 >>, << 255, 255, 255 >> >>[i + 1]]

\* ------------------------------------------------------------------ bounds
MaxCalls   == 3     \* function calls in a run of the call-level specifications
MaxDelta   == 2     \* SpecCalls draws step deltas from -MaxDelta .. MaxDelta
BigDelta   == 1000  \* ... and from {-BigDelta, BigDelta}
StepsDelta == 5     \* ... and the delta of the brightness scenario
WideDelta  == 26    \* SpecBrightness draws them from -WideDelta .. WideDelta
MaxEvents  == 2     \* switch presses and encoder movements in a run of Spec
MaxSwitch  == 2     \* presses and toggle_led calls are for switches 0 .. MaxSwitch
BigTurn    == 60    \* an encoder moves by 1 or by BigTurn steps at a time
MaxTicks   == 150   \* single-step transitions in a run of SpecEncoder
MaxPolls   == 4     \* loop iterations in a run of SpecPoll
SmallTurn  == 3     \* between two of them a knob moves by SmallTurn or MAX_STEPS
MaxSplit   == 3     \* a movement is split into parts of 1 .. MaxSplit steps

Deltas == (-MaxDelta .. MaxDelta) \cup {-BigDelta, BigDelta, StepsDelta}

WideDeltas == -WideDelta .. WideDelta

Turns == {-BigTurn, -1, 1, BigTurn}

Pressable == 0 .. Min(MaxSwitch, NUM_LEDS - 1)

PollTurns == {-MAX_STEPS, -SmallTurn, SmallTurn, MAX_STEPS}

VARIABLES
    brightness,             \* global brightness (float)
    volume,                 \* global volume (int)
    led_states,             \* global led_states
    pixels,                 \* the NeoPixel buffer: pixels[i]
    pixels_brightness,      \* pixels.brightness, the driver's scalar
    strip,                  \* the frame last pushed by pixels.show()
    shows,                  \* number of pixels.show() calls so far
    audio_available,        \* global audio_available
    master_volume,          \* the host's master volume scalar (full when the program starts)
    sink_arg,               \* argument of the last SetMasterVolumeLevelScalar call
    sink_calls,             \* number of SetMasterVolumeLevelScalar calls so far
    sink_error,             \* what became of an exception of the last such call
    encoder_brightness,     \* encoder_brightness.steps
    encoder_volume,         \* encoder_volume.steps
    last_brightness_value,  \* main's locals
    last_volume_value,
    current_brightness,
    current_volume,
    when_pressed,           \* switches whose when_pressed handler is installed
    pc,                     \* the main thread's position
    hpc, hidx,              \* the switch callback thread: position, toggle_led's index
    interrupted,            \* the interrupt signal has been delivered
    pressed,                \* per switch: an odd number of presses were handled
    call,                   \* the latest call of the call-level specifications
    events, calls,          \* events and calls so far, against the bounds
    fed_brightness,         \* the brightness encoder's reading at loop start plus
                            \* every delta passed to update_brightness since
    fed_volume              \* the same for the volume encoder and update_volume

leds   == << led_states, pixels >>
driver == << pixels_brightness, strip, shows >>
audio  == << audio_available, master_volume, sink_arg, sink_calls, sink_error >>
encs   == << encoder_brightness, encoder_volume >>
locals == << last_brightness_value, last_volume_value, current_brightness,
             current_volume >>
handler == << hpc, hidx, pressed >>
budget == << events, calls, call >>
fed == << fed_brightness, fed_volume >>

vars == << brightness, volume, leds, driver, audio, encs, locals, when_pressed,
           pc, handler, interrupted, budget, fed >>

\* ----------------------------------------------------- the pure computations
\* mutants of NewBrightness: the clamp left out; 0.01 a step
NewBrightness_unclamped(b, steps) == FAdd(b, FMulInt(steps, Float(F0_02)))

NewBrightness_halfstep(b, steps) ==
    FMax(Float(F0_0), FMin(Float(F1_0), FAdd(b, FMulInt(steps, Float(F0_01)))))

\* line 79: max(0.0, min(1.0, brightness + steps * 0.02))
NewBrightness(b, steps) ==
    FMax(Float(F0_0), FMin(Float(F1_0), FAdd(b, FMulInt(steps, Float(F0_02)))))

\* line 81: abs(brightness - old_brightness) > 0.01
BrightnessChanged(new, old) == FLess(Float(F0_01), FAbs(FSub(new, old)))

\* line 90: max(0, min(100, volume + steps * 2))
NewVolume(v, steps) == Max(0, Min(100, v + steps * 2))

\* mutant of VolumeChanged: a threshold of one step
VolumeChanged_coarse(new, old) == Abs(new - old) > 2

\* line 92: abs(volume - old_volume) > 1
VolumeChanged(new, old) == Abs(new - old) > 1

\* mutant of VolumeScalar: the percentage passed on unscaled
VolumeScalar_unscaled(vol) == FDivInt(vol, 1)

\* line 70: vol / 100.0
VolumeScalar(vol) == FDivInt(vol, 100)

\* lines 100-104: the colour toggle_led writes for the new state
PixelFor(index, on) == IF on THEN led_colors[index] ELSE BLACK

\* pixels.show(): the buffer and the brightness scalar go to the strip
Frame(buf, scalar) == [buf |-> buf, brightness |-> scalar]

\* pixels.fill((0, 0, 0))
Filled == [i \in LEDS |-> BLACK]

\* mutants of Saturate: the counter wraps to the other bound; the bound is
\* twice max_steps
Saturate_wrap(n) ==
    IF n > MAX_STEPS THEN -MAX_STEPS ELSE IF n < -MAX_STEPS THEN MAX_STEPS ELSE n

Saturate_wide(n) == Max(-2 * MAX_STEPS, Min(2 * MAX_STEPS, n))

\* RotaryEncoder(max_steps=100): the counter saturates at +-max_steps
Saturate(n) == Max(-MAX_STEPS, Min(MAX_STEPS, n))

\* -------------------------------------------------------------------- Init
\* the module's top level has run: lines 16-63
Init ==
    /\ brightness = Float(F0_5)
    /\ volume = 50
    /\ led_states = [i \in LEDS |-> FALSE]
    /\ pixels = Filled
    /\ pixels_brightness = Float(F0_5)
    /\ strip = Frame(Filled, Float(F0_5))
    /\ shows = 0
    /\ audio_available \in BOOLEAN
    /\ master_volume = Float(F1_0)
    /\ sink_arg = Float(F0_0)
    /\ sink_calls = 0
    /\ sink_error = "none"
    /\ encoder_brightness = 0
    /\ encoder_volume = 0
    /\ last_brightness_value = 0
    /\ last_volume_value = 0
    /\ current_brightness = 0
    /\ current_volume = 0
    /\ when_pressed = {}
    /\ pc = "l124"
    /\ hpc = "idle"
    /\ hidx = 0
    /\ interrupted = FALSE
    /\ pressed = [i \in LEDS |-> FALSE]
    /\ events = 0
    /\ calls = 0
    /\ call = [op |-> "none", arg |-> 0]
    /\ fed_brightness = 0
    /\ fed_volume = 0

\* mutant of SinkOutcomes: the except clause left out, the exception leaves
\* set_system_volume
SinkOutcomes_uncaught == {"none", "raised"}

\* lines 68-73: SetMasterVolumeLevelScalar returns, or raises an Exception
\* that line 72 catches
SinkOutcomes == {"none", "caught"}

\* set_system_volume(vol), lines 65-73
set_system_volume(vol) ==
    IF audio_available
    THEN \E outcome \in SinkOutcomes :
            /\ sink_calls' = sink_calls + 1
            /\ sink_arg' = VolumeScalar(vol)
            /\ sink_error' = outcome
            /\ master_volume' = IF outcome = "none" THEN VolumeScalar(vol)
                                                   ELSE master_volume
            /\ UNCHANGED audio_available
    ELSE UNCHANGED audio

\* where the main thread goes on after a call of set_system_volume: at the
\* next statement, unless an exception left the call, which nothing in main()
\* catches
AfterSink(next) == IF sink_error' = "raised" THEN "killed" ELSE next

\* ------------------------------------------- the functions, as whole calls
\* update_brightness(steps), lines 75-84
update_brightness(steps) ==
    LET new == NewBrightness(brightness, steps)
    IN  /\ brightness' = new
        /\ IF BrightnessChanged(new, brightness)
           THEN /\ pixels_brightness' = new
                /\ strip' = Frame(pixels, new)
                /\ shows' = shows + 1
           ELSE UNCHANGED driver
        /\ UNCHANGED << volume, leds, audio >>

\* update_volume(steps), lines 86-94
update_volume(steps) ==
    LET new == NewVolume(volume, steps)
    IN  /\ volume' = new
        /\ IF VolumeChanged(new, volume)
           THEN set_system_volume(new)
           ELSE UNCHANGED audio
        /\ UNCHANGED << brightness, leds, driver >>

\* mutants of toggle_led: the LED switched on whatever its state; the whole
\* buffer rewritten with the colour
toggle_led_on(index) ==
    LET buf == [pixels EXCEPT ![index] = PixelFor(index, TRUE)]
    IN  /\ led_states' = [led_states EXCEPT ![index] = TRUE]
        /\ pixels' = buf
        /\ strip' = Frame(buf, pixels_brightness)
        /\ shows' = shows + 1
        /\ UNCHANGED << brightness, volume, pixels_brightness, audio >>

toggle_led_fill(index) ==
    LET on  == ~led_states[index]
        buf == [i \in LEDS |-> PixelFor(index, on)]
    IN  /\ led_states' = [led_states EXCEPT ![index] = on]
        /\ pixels' = buf
        /\ strip' = Frame(buf, pixels_brightness)
        /\ shows' = shows + 1
        /\ UNCHANGED << brightness, volume, pixels_brightness, audio >>

\* toggle_led(index), lines 96-107
toggle_led(index) ==
    LET on  == ~led_states[index]
        buf == [pixels EXCEPT ![index] = PixelFor(index, on)]
    IN  /\ led_states' = [led_states EXCEPT ![index] = on]
        /\ pixels' = buf
        /\ strip' = Frame(buf, pixels_brightness)
        /\ shows' = shows + 1
        /\ UNCHANGED << brightness, volume, pixels_brightness, audio >>

\* main's startup, lines 124-135
Startup ==
    /\ pc = "l124"
    /\ pixels' = Filled
    /\ strip' = Frame(Filled, pixels_brightness)
    /\ shows' = shows + 1
    /\ when_pressed' = LEDS
    /\ set_system_volume(volume)
    /\ last_brightness_value' = encoder_brightness
    /\ last_volume_value' = encoder_volume
    /\ fed_brightness' = encoder_brightness
    /\ fed_volume' = encoder_volume
    /\ pc' = AfterSink("l140")
    /\ UNCHANGED << brightness, volume, led_states, pixels_brightness, encs,
                    current_brightness, current_volume, handler, interrupted,
                    budget >>

Call(name, x, effect) ==
    /\ pc = "l140"
    /\ calls < MaxCalls
    /\ calls' = calls + 1
    /\ call' = [op |-> name, arg |-> x]
    /\ effect
    /\ UNCHANGED << encs, locals, when_pressed, pc, hpc, hidx, interrupted,
                    events, fed >>

CallUpdateBrightness ==
    \E d \in Deltas :
        Call("update_brightness", d, update_brightness(d) /\ UNCHANGED pressed)

CallUpdateVolume ==
    \E d \in Deltas :
        Call("update_volume", d, update_volume(d) /\ UNCHANGED pressed)

CallToggleLed ==
    \E i \in Pressable :
        Call("toggle_led", i,
             toggle_led(i) /\ pressed' = [pressed EXCEPT ![i] = ~pressed[i]])

WideUpdateBrightness ==
    \E d \in WideDeltas :
        Call("update_brightness", d, update_brightness(d) /\ UNCHANGED pressed)

\* the three functions called one after another, in any order
NextCalls ==
    \/ Startup
    \/ CallUpdateBrightness
    \/ CallUpdateVolume
    \/ CallToggleLed

SpecCalls == Init /\ [][NextCalls]_vars

\* update_brightness alone, over a wide range of deltas
NextBrightness == Startup \/ WideUpdateBrightness

SpecBrightness == Init /\ [][NextBrightness]_vars

\* one iteration of the loop, lines 140-153, after the brightness knob was
\* turned by k
PollBrightness ==
    \E k \in PollTurns :
        LET current == Saturate(encoder_brightness + k)
            delta   == current - last_brightness_value
        IN  /\ pc = "l140"
            /\ calls < MaxPolls
            /\ calls' = calls + 1
            /\ encoder_brightness' = current
            /\ current_brightness' = current
            /\ current_volume' = encoder_volume
            /\ IF current # last_brightness_value
               THEN /\ update_brightness(delta)
                    /\ last_brightness_value' = current
                    /\ fed_brightness' = fed_brightness + delta
               ELSE UNCHANGED << brightness, volume, leds, driver, audio,
                                 last_brightness_value, fed_brightness >>
            /\ UNCHANGED << encoder_volume, last_volume_value, fed_volume,
                            when_pressed, pc, handler, interrupted, events, call >>

\* one iteration of the loop after the volume knob was turned by k
PollVolume ==
    \E k \in PollTurns :
        LET current == Saturate(encoder_volume + k)
            delta   == current - last_volume_value
        IN  /\ pc = "l140"
            /\ calls < MaxPolls
            /\ calls' = calls + 1
            /\ encoder_volume' = current
            /\ current_volume' = current
            /\ current_brightness' = encoder_brightness
            /\ IF current # last_volume_value
               THEN /\ update_volume(delta)
                    /\ last_volume_value' = current
                    /\ fed_volume' = fed_volume + delta
               ELSE UNCHANGED << brightness, volume, leds, driver, audio,
                                 last_volume_value, fed_volume >>
            /\ UNCHANGED << encoder_brightness, last_brightness_value,
                            fed_brightness, when_pressed, pc, handler,
                            interrupted, events, call >>

\* start-up, then iterations of the loop with a knob turned before each
NextPoll == Startup \/ PollBrightness \/ PollVolume

SpecPoll == Init /\ [][NextPoll]_vars

\* --------------------------------------------------- the program, by steps
\* The main thread runs main() statement by statement.  The when_pressed
\* handlers run on the switch library's callback thread, one at a time, and
\* their statements interleave with the main thread's.
StartupPcs == {"l124", "l125", "l128", "l131", "l134"}

LoopPcs == {"l140", "l78", "l82", "l83", "l144", "l147", "l89", "l93", "l151",
            "l153"}

Running == pc \notin {"exited", "killed"}

\* line 124: pixels.fill((0, 0, 0))
main_fill ==
    /\ pc = "l124"
    /\ pixels' = Filled
    /\ pc' = "l125"
    /\ UNCHANGED << brightness, volume, led_states, driver, audio, encs, locals,
                    when_pressed, handler, interrupted, budget, fed >>

\* mutant of main_show: the all-off buffer is not committed
main_show_skip ==
    /\ pc = "l125"
    /\ pc' = "l128"
    /\ UNCHANGED << brightness, volume, leds, driver, audio, encs, locals,
                    when_pressed, handler, interrupted, budget, fed >>

\* line 125: pixels.show()
main_show ==
    /\ pc = "l125"
    /\ strip' = Frame(pixels, pixels_brightness)
    /\ shows' = shows + 1
    /\ pc' = "l128"
    /\ UNCHANGED << brightness, volume, leds, pixels_brightness, audio, encs,
                    locals, when_pressed, handler, interrupted, budget, fed >>

\* line 128 and lines 109-112: setup_switch_handlers()
setup_switch_handlers ==
    /\ pc = "l128"
    /\ when_pressed' = LEDS
    /\ pc' = "l131"
    /\ UNCHANGED << brightness, volume, leds, driver, audio, encs, locals,
                    handler, interrupted, budget, fed >>

\* line 131: set_system_volume(volume)
main_initial_volume ==
    /\ pc = "l131"
    /\ set_system_volume(volume)
    /\ pc' = AfterSink("l134")
    /\ UNCHANGED << brightness, volume, leds, driver, encs, locals,
                    when_pressed, handler, interrupted, budget, fed >>

\* lines 134-135: the encoders' first snapshots
main_snapshot ==
    /\ pc = "l134"
    /\ last_brightness_value' = encoder_brightness
    /\ last_volume_value' = encoder_volume
    /\ fed_brightness' = encoder_brightness
    /\ fed_volume' = encoder_volume
    /\ pc' = "l140"
    /\ UNCHANGED << brightness, volume, leds, driver, audio, encs,
                    current_brightness, current_volume, when_pressed, handler,
                    interrupted, budget >>

\* lines 140-141
main_read_brightness ==
    /\ pc = "l140"
    /\ current_brightness' = encoder_brightness
    /\ pc' = IF encoder_brightness # last_brightness_value THEN "l78" ELSE "l147"
    /\ UNCHANGED << brightness, volume, leds, driver, audio, encs,
                    last_brightness_value, last_volume_value, current_volume,
                    when_pressed, handler, interrupted, budget, fed >>

\* lines 142-143 and 78-81: delta, the new brightness, the threshold test
update_brightness_calc ==
    /\ pc = "l78"
    /\ LET new == NewBrightness(brightness,
                                current_brightness - last_brightness_value)
       IN  /\ brightness' = new
           /\ pc' = IF BrightnessChanged(new, brightness) THEN "l82" ELSE "l144"
    /\ fed_brightness' = fed_brightness + (current_brightness - last_brightness_value)
    /\ UNCHANGED << volume, leds, driver, audio, encs, locals, when_pressed,
                    handler, interrupted, budget, fed_volume >>

\* line 82: pixels.brightness = brightness
update_brightness_set ==
    /\ pc = "l82"
    /\ pixels_brightness' = brightness
    /\ pc' = "l83"
    /\ UNCHANGED << brightness, volume, leds, strip, shows, audio, encs, locals,
                    when_pressed, handler, interrupted, budget, fed >>

\* line 83: pixels.show()
update_brightness_show ==
    /\ pc = "l83"
    /\ strip' = Frame(pixels, pixels_brightness)
    /\ shows' = shows + 1
    /\ pc' = "l144"
    /\ UNCHANGED << brightness, volume, leds, pixels_brightness, audio, encs,
                    locals, when_pressed, handler, interrupted, budget, fed >>

\* line 144
main_store_brightness ==
    /\ pc = "l144"
    /\ last_brightness_value' = current_brightness
    /\ pc' = "l147"
    /\ UNCHANGED << brightness, volume, leds, driver, audio, encs,
                    last_volume_value, current_brightness, current_volume,
                    when_pressed, handler, interrupted, budget, fed >>

\* lines 147-148
main_read_volume ==
    /\ pc = "l147"
    /\ current_volume' = encoder_volume
    /\ pc' = IF encoder_volume # last_volume_value THEN "l89" ELSE "l153"
    /\ UNCHANGED << brightness, volume, leds, driver, audio, encs,
                    last_brightness_value, last_volume_value, current_brightness,
                    when_pressed, handler, interrupted, budget, fed >>

\* lines 149-150 and 89-92
update_volume_calc ==
    /\ pc = "l89"
    /\ LET new == NewVolume(volume, current_volume - last_volume_value)
       IN  /\ volume' = new
           /\ pc' = IF VolumeChanged(new, volume) THEN "l93" ELSE "l151"
    /\ fed_volume' = fed_volume + (current_volume - last_volume_value)
    /\ UNCHANGED << brightness, leds, driver, audio, encs, locals, when_pressed,
                    handler, interrupted, budget, fed_brightness >>

\* line 93: set_system_volume(volume)
update_volume_push ==
    /\ pc = "l93"
    /\ set_system_volume(volume)
    /\ pc' = AfterSink("l151")
    /\ UNCHANGED << brightness, volume, leds, driver, encs, locals,
                    when_pressed, handler, interrupted, budget, fed >>

\* mutant of main_store_volume: the snapshot is not taken
main_store_volume_skip ==
    /\ pc = "l151"
    /\ pc' = "l153"
    /\ UNCHANGED << brightness, volume, leds, driver, audio, encs, locals,
                    when_pressed, handler, interrupted, budget, fed >>

\* line 151
main_store_volume ==
    /\ pc = "l151"
    /\ last_volume_value' = current_volume
    /\ pc' = "l153"
    /\ UNCHANGED << brightness, volume, leds, driver, audio, encs,
                    last_brightness_value, current_brightness, current_volume,
                    when_pressed, handler, interrupted, budget, fed >>

\* line 153: time.sleep(0.01)
main_sleep ==
    /\ pc = "l153"
    /\ pc' = "l140"
    /\ UNCHANGED << brightness, volume, leds, driver, audio, encs, locals,
                    when_pressed, handler, interrupted, budget, fed >>

\* the interrupt signal raises KeyboardInterrupt in the main thread: inside
\* the try block (lines 137-153) line 155 catches it; before it nothing does
\* and the process dies with the traceback
Interrupt ==
    /\ ~interrupted
    /\ pc \in StartupPcs \cup LoopPcs
    /\ interrupted' = TRUE
    /\ pc' = IF pc \in LoopPcs THEN "l157" ELSE "killed"
    /\ UNCHANGED << brightness, volume, leds, driver, audio, encs, locals,
                    when_pressed, handler, budget, fed >>

\* line 157: pixels.fill((0, 0, 0))
shutdown_fill ==
    /\ pc = "l157"
    /\ pixels' = Filled
    /\ pc' = "l158"
    /\ UNCHANGED << brightness, volume, led_states, driver, audio, encs, locals,
                    when_pressed, handler, interrupted, budget, fed >>

\* line 158: pixels.show()
shutdown_show ==
    /\ pc = "l158"
    /\ strip' = Frame(pixels, pixels_brightness)
    /\ shows' = shows + 1
    /\ pc' = "l159"
    /\ UNCHANGED << brightness, volume, leds, pixels_brightness, audio, encs,
                    locals, when_pressed, handler, interrupted, budget, fed >>

\* line 159 and the return from main(): the process ends
main_exit ==
    /\ pc = "l159"
    /\ pc' = "exited"
    /\ UNCHANGED << brightness, volume, leds, driver, audio, encs, locals,
                    when_pressed, handler, interrupted, budget, fed >>

\* a Pressed edge on switch i, line 112: its handler calls toggle_led(i)
Press ==
    \E i \in when_pressed \cap Pressable :
        /\ Running
        /\ hpc = "idle"
        /\ events < MaxEvents
        /\ events' = events + 1
        /\ hpc' = "l98"
        /\ hidx' = i
        /\ pressed' = [pressed EXCEPT ![i] = ~pressed[i]]
        /\ UNCHANGED << brightness, volume, leds, driver, audio, encs, locals,
                        when_pressed, pc, interrupted, calls, call, fed >>

\* line 98: led_states[index] = not led_states[index]
toggle_led_flip ==
    /\ Running
    /\ hpc = "l98"
    /\ led_states' = [led_states EXCEPT ![hidx] = ~led_states[hidx]]
    /\ hpc' = "l100"
    /\ UNCHANGED << brightness, volume, pixels, driver, audio, encs, locals,
                    when_pressed, pc, hidx, pressed, interrupted, budget, fed >>

\* lines 100-104: pixels[index] = led_colors[index] or (0, 0, 0)
toggle_led_write ==
    /\ Running
    /\ hpc = "l100"
    /\ pixels' = [pixels EXCEPT ![hidx] = PixelFor(hidx, led_states[hidx])]
    /\ hpc' = "l107"
    /\ UNCHANGED << brightness, volume, led_states, driver, audio, encs, locals,
                    when_pressed, pc, hidx, pressed, interrupted, budget, fed >>

\* line 107: pixels.show()
toggle_led_show ==
    /\ Running
    /\ hpc = "l107"
    /\ strip' = Frame(pixels, pixels_brightness)
    /\ shows' = shows + 1
    /\ hpc' = "idle"
    /\ UNCHANGED << brightness, volume, leds, pixels_brightness, audio, encs,
                    locals, when_pressed, pc, hidx, pressed, interrupted, budget, fed >>

\* the brightness knob is turned (the encoders are not read once the loop
\* has ended)
TurnBrightness ==
    \E k \in Turns :
        /\ pc \in StartupPcs \cup LoopPcs
        /\ events < MaxEvents
        /\ events' = events + 1
        /\ encoder_brightness' = Saturate(encoder_brightness + k)
        /\ UNCHANGED << brightness, volume, leds, driver, audio, encoder_volume,
                        locals, when_pressed, pc, handler, interrupted, calls,
                        call, fed >>

\* the volume knob is turned
TurnVolume ==
    \E k \in Turns :
        /\ pc \in StartupPcs \cup LoopPcs
        /\ events < MaxEvents
        /\ events' = events + 1
        /\ encoder_volume' = Saturate(encoder_volume + k)
        /\ UNCHANGED << brightness, volume, leds, driver, audio,
                        encoder_brightness, locals, when_pressed, pc, handler,
                        interrupted, calls, call, fed >>

\* one quadrature transition of the brightness encoder, in either direction
StepBrightness ==
    \E k \in {-1, 1} :
        /\ events < MaxTicks
        /\ events' = events + 1
        /\ encoder_brightness' = Saturate(encoder_brightness + k)
        /\ UNCHANGED << brightness, volume, leds, driver, audio, encoder_volume,
                        locals, when_pressed, pc, handler, interrupted, calls,
                        call, fed >>

\* one quadrature transition of the volume encoder
StepVolume ==
    \E k \in {-1, 1} :
        /\ events < MaxTicks
        /\ events' = events + 1
        /\ encoder_volume' = Saturate(encoder_volume + k)
        /\ UNCHANGED << brightness, volume, leds, driver, audio,
                        encoder_brightness, locals, when_pressed, pc, handler,
                        interrupted, calls, call, fed >>

\* the two encoders alone, turned one transition at a time
NextEncoder == StepBrightness \/ StepVolume

SpecEncoder == Init /\ [][NextEncoder]_vars

MainStep ==
    \/ main_fill
    \/ main_show
    \/ setup_switch_handlers
    \/ main_initial_volume
    \/ main_snapshot
    \/ main_read_brightness
    \/ update_brightness_calc
    \/ update_brightness_set
    \/ update_brightness_show
    \/ main_store_brightness
    \/ main_read_volume
    \/ update_volume_calc
    \/ update_volume_push
    \/ main_store_volume
    \/ main_sleep
    \/ shutdown_fill
    \/ shutdown_show
    \/ main_exit

HandlerStep ==
    \/ toggle_led_flip
    \/ toggle_led_write
    \/ toggle_led_show

Next ==
    \/ MainStep
    \/ HandlerStep
    \/ Press
    \/ TurnBrightness
    \/ TurnVolume
    \/ Interrupt

Spec == Init /\ [][Next]_vars

\* ------------------------------------------------------------- the claims
\* the colours the logical state asks for
Rendered == [i \in LEDS |-> IF led_states[i] THEN led_colors[i] ELSE BLACK]

\* |a - b| <= tol on exact magnitudes
Close(a, b, tol) ==
    /\ ~DLess(DAddExact(b, tol), a)
    /\ ~DLess(DAddExact(a, tol), b)

\* the integer n as a magnitude: n * 2^59 units
Whole(n) == << n * 2^19, 0, 0 >>

\* |new - old| > 0.01, on the exact difference
Exceeds(new, old) ==
    DLess(F0_01, IF DLess(new.mag, old.mag)
                 THEN DSubExact(old.mag, new.mag)
                 ELSE DSubExact(new.mag, old.mag))

\* 50 * clamp(old + d / 50, 0, 1) in exact arithmetic
Clamp50(old, d) ==
    LET a == DMulExact(old.mag, 50)
        b == Whole(Abs(d))
        x == DAddExact(a, b)
    IN  IF d >= 0
        THEN IF DLess(Whole(50), x) THEN Whole(50) ELSE x
        ELSE IF DLess(a, b) THEN F0_0 ELSE DSubExact(a, b)

\* new is clamp(old + 0.02 * d, 0, 1) up to the rounding of three float
\* operations (2^-50)
IsClampedSum(new, old, d) ==
    /\ ~new.neg
    /\ ~DLess(F1_0, new.mag)
    /\ Close(DMulExact(new.mag, 50), Clamp50(old, d), << 0, 0, 50 * 512 >>)

\* f is n / d up to the rounding of one float operation (2^-54)
IsQuotient(f, n, d) ==
    /\ ~f.neg
    /\ ~DLess(Whole(n \div d + 1), f.mag)
    /\ Close(DMulExact(f.mag, d), Whole(n), << 0, 0, d * 32 >>)

ClampInt(n, lo, hi) == IF n < lo THEN lo ELSE IF n > hi THEN hi ELSE n

\* the double nearest 0.6
F0_6 == << 314572, 838860, 838848 >>

IsCall(name) == calls' # calls /\ call'.op = name

\* C1: after any sequence of update_brightness and update_volume calls, with
\* any step deltas, brightness is within [0.0, 1.0] and volume within [0, 100].
C1_Clamped ==
    /\ ~FLess(brightness, Float(F0_0))
    /\ ~FLess(Float(F1_0), brightness)
    /\ volume >= 0
    /\ volume <= 100

\* a delta of +BigDelta has been applied to brightness and one of -BigDelta to
\* volume
C1_Witness ==
    /\ calls = 2
    /\ call.arg \in {-BigDelta, BigDelta}
    /\ brightness = Float(F1_0)
    /\ volume = 0

\* C2: once an operation has completed, the frame last committed is the
\* logical state: each pixel its LED's colour or black, the brightness scalar
\* the brightness parameter.
C2_CommittedIsLogical ==
    pc = "l140" => strip = Frame(Rendered, brightness)

\* C3: whenever no toggle is under way, each pixel slot holds its LED's colour
\* if the LED is on and black if it is off, shutdown included.
C3_SlotsMatchStates ==
    hpc = "idle" => pixels = Rendered

\* C4: two presses on switch i bring led_states[i] and the committed colour of
\* pixel i back: both depend only on whether the number of presses on i so
\* far is odd, whatever calls come in between.
C4_Involution ==
    pc = "l140" =>
        \A i \in LEDS :
            /\ led_states[i] = pressed[i]
            /\ strip.buf[i] = (IF pressed[i] THEN led_colors[i] ELSE BLACK)

\* LED 0 was toggled, brightness was changed, LED 0 was toggled again
C4_Witness ==
    /\ calls = 3
    /\ shows = 4
    /\ call = [op |-> "toggle_led", arg |-> 0]
    /\ brightness # Float(F0_5)
    /\ \A i \in LEDS : ~pressed[i] /\ ~led_states[i] /\ strip.buf[i] = BLACK

\* C5: an integrator update whose change is at or below the threshold is a
\* no-op: the parameter, the driver and the sink are left as they were.
C5_SubThresholdNoOp ==
    [][(/\ calls' # calls
        /\ call'.op \in {"update_brightness", "update_volume"}
        /\ ~Exceeds(brightness', brightness)
        /\ Abs(volume' - volume) <= 1)
       => UNCHANGED << brightness, volume, driver, audio >>]_vars

\* C6: when the interrupt arrives while the loop runs, the last frame
\* committed before the process exits is all black.
C6_LastFrameBlack ==
    pc = "exited" => strip.buf = Filled

\* C7: no toggle_led execution overlaps an update_brightness or update_volume
\* execution or the shutdown sequence.
C7_NoInterleaving ==
    ~(hpc \in {"l100", "l107"} /\ pc \in {"l82", "l83", "l93", "l158"})

\* C8: update_brightness(d) leaves clamp(old + 0.02 * d, 0, 1); when that
\* differs from old by more than 0.01 the driver's scalar is set to it and
\* the buffer is committed once; from 0.5, d = +5 gives 0.6, pushed.
C8_UpdateBrightness ==
    [][IsCall("update_brightness") =>
        /\ IsClampedSum(brightness', brightness, call'.arg)
        /\ Exceeds(brightness', brightness) =>
              /\ pixels_brightness' = brightness'
              /\ shows' = shows + 1
              /\ strip' = Frame(pixels, brightness')
        /\ (brightness = Float(F0_5) /\ call'.arg = 5) =>
              /\ brightness' = Float(F0_6)
              /\ strip'.brightness = Float(F0_6)]_vars

\* the scenario: +5 steps from 0.5, with LED 2 lit
C8_Witness ==
    /\ call = [op |-> "update_brightness", arg |-> 5]
    /\ brightness = Float(F0_6)
    /\ led_states[2]
    /\ strip = Frame(Rendered, Float(F0_6))
    /\ shows = 3

\* C9 as stated: update_volume(d) leaves clamp(old + 2 * d, 0, 100); when that
\* differs from old by more than 1, one call goes to the sink, with new / 100.
C9_AsStated ==
    [][IsCall("update_volume") =>
        LET new == ClampInt(volume + 2 * call'.arg, 0, 100)
        IN  /\ volume' = new
            /\ Abs(new - volume) > 1 =>
                  /\ sink_calls' = sink_calls + 1
                  /\ IsQuotient(sink_arg', new, 100)]_vars

\* C9, amended: ... one call goes to the sink, with new / 100, if audio
\* control was initialised; none goes if it was not or the change is smaller.
C9_UpdateVolume ==
    [][IsCall("update_volume") =>
        LET new == ClampInt(volume + 2 * call'.arg, 0, 100)
        IN  /\ volume' = new
            /\ IF Abs(new - volume) > 1 /\ audio_available
               THEN /\ sink_calls' = sink_calls + 1
                    /\ IsQuotient(sink_arg', new, 100)
               ELSE UNCHANGED << sink_calls, sink_arg >>]_vars

\* a delta of +BigDelta from 50: 100 is stored and 1.0 sent, after startup's 0.5
C9_Witness ==
    /\ call = [op |-> "update_volume", arg |-> BigDelta]
    /\ calls = 1
    /\ volume = 100
    /\ audio_available
    /\ sink_calls = 2
    /\ sink_arg = Float(F1_0)

\* C10: toggle_led(i) changes the state and the pixel of LED i alone and
\* leaves brightness and volume; update_brightness and update_volume leave
\* every LED state and every pixel colour.
C10_Frame ==
    [][/\ \A j \in LEDS :
            (pressed'[j] = pressed[j]) =>
                /\ led_states'[j] = led_states[j]
                /\ pixels'[j] = pixels[j]
                /\ strip'.buf[j] = strip.buf[j]
       /\ IsCall("toggle_led") =>
            /\ pressed'[call'.arg] # pressed[call'.arg]
            /\ UNCHANGED << brightness, volume >>
       /\ (IsCall("update_brightness") \/ IsCall("update_volume")) =>
            UNCHANGED << led_states, pixels, pressed >>]_vars

\* the scenario: switch 3 pressed, LED 2 blue, then both parameters changed
\* with LED 2 still blue and the others dark
C10_Witness ==
    /\ calls = 3
    /\ led_states = [i \in LEDS |-> i = 2]
    /\ pixels = [i \in LEDS |-> IF i = 2 THEN << 0, 0, 255 >> ELSE BLACK]
    /\ strip.buf = pixels
    /\ brightness # Float(F0_5)
    /\ volume # 50

\* C11: whether audio control is unavailable or a volume-set call fails, the
\* main thread goes on at the statement after set_system_volume with the
\* LEDs, the driver, both parameters and the loop's snapshots as they were,
\* and the loop is left only when the interrupt signal arrives.
C11_FailureAbsorbed ==
    [][/\ (pc \in {"l131", "l93"} /\ pc' # pc /\ interrupted' = interrupted) =>
            /\ pc' = (IF pc = "l131" THEN "l134" ELSE "l151")
            /\ UNCHANGED << brightness, volume, leds, driver, encs, locals,
                            when_pressed, handler >>
       /\ (pc' # pc /\ pc' \in {"killed", "l157"}) =>
            (interrupted' /\ ~interrupted)]_vars

\* the call that pushed 52 failed; the loop is at its first statement again
\* and a press has lit LED 0 on the strip
C11_Witness ==
    /\ pc = "l140"
    /\ audio_available
    /\ sink_calls = 2
    /\ sink_error = "caught"
    /\ master_volume # sink_arg
    /\ volume = 52
    /\ last_volume_value = 1
    /\ led_states[0]
    /\ strip.buf[0] = led_colors[0]

\* C12: update_brightness (update_volume) is entered exactly when the value
\* just read differs from the snapshot; once the encoder's part of the
\* iteration is over the snapshot is the value read, and the reading at loop
\* start plus all the deltas passed on so far is that value too.
C12_SnapshotsFollow ==
    /\ pc = "l78" => current_brightness # last_brightness_value
    /\ pc \in {"l147", "l89", "l93", "l151", "l153"} =>
            /\ last_brightness_value = current_brightness
            /\ fed_brightness = current_brightness
    /\ pc = "l89" => current_volume # last_volume_value
    /\ pc = "l153" =>
            /\ last_volume_value = current_volume
            /\ fed_volume = current_volume

\* the volume knob went up one step in each of two iterations: update_volume
\* ran twice and the iteration ends with the snapshot at 2
C12_Witness ==
    /\ pc = "l153"
    /\ current_volume = 2
    /\ last_volume_value = 2
    /\ fed_volume = 2
    /\ volume = 54
    /\ audio_available
    /\ sink_calls = 3

C14_ShutdownBeforeExit ==
    (interrupted /\ ~Running /\ when_pressed = LEDS) => pc = "exited"

\* C15: each encoder's counter stays within [-100, +100]; a transition moves
\* it by one step, or, at a bound, not at all: it never wraps.
C15_Saturates ==
    /\ [](/\ encoder_brightness \in -100 .. 100
          /\ encoder_volume \in -100 .. 100)
    /\ [][events' = events + 1 =>
            /\ Abs(encoder_brightness' - encoder_brightness)
                   + Abs(encoder_volume' - encoder_volume) <= 1
            /\ UNCHANGED encs =>
                   (Abs(encoder_brightness) = 100 \/ Abs(encoder_volume) = 100)]_vars

\* MaxTicks transitions, the volume encoder where it started: 150 transitions
\* of +1 leave the brightness encoder at 100
C15_Witness ==
    /\ events = 150
    /\ encoder_brightness = 100
    /\ encoder_volume = 0

\* C16: after start-up and after every update the stored parameters are what
\* was last pushed: volume is even and, with audio available and the last call
\* succeeding, the host's volume and the last argument are volume / 100;
\* brightness is the driver's brightness scalar.
C16_NeverDiverges ==
    pc = "l140" =>
        /\ volume % 2 = 0
        /\ (audio_available /\ sink_error = "none") =>
                /\ sink_arg = VolumeScalar(volume)
                /\ master_volume = VolumeScalar(volume)
        /\ brightness = pixels_brightness

\* the rounding error updates can have left in brightness: 2^-49 for each
AccumulatedRounding(n) == << 0, 0, n * 1024 >>

\* C17 as stated: after a poll, a counter at +100 has its parameter at the
\* maximum and one at -100 has it at the minimum.
C17_AsStated ==
    pc = "l140" =>
        /\ encoder_brightness = 100 => brightness = Float(F1_0)
        /\ encoder_brightness = -100 => brightness = Float(F0_0)
        /\ encoder_volume = 100 => volume = 100
        /\ encoder_volume = -100 => volume = 0

\* C17, amended: ... volume is exactly at its bound; brightness is at its
\* bound up to the rounding of the updates made so far.
C17_NeverStranded ==
    pc = "l140" =>
        /\ encoder_brightness = 100 =>
                Close(brightness.mag, F1_0, AccumulatedRounding(calls))
        /\ encoder_brightness = -100 =>
                Close(brightness.mag, F0_0, AccumulatedRounding(calls))
        /\ ~brightness.neg
        /\ encoder_volume = 100 => volume = 100
        /\ encoder_volume = -100 => volume = 0

\* the brightness knob went to +100, back by some steps and up to +100 again:
\* brightness is just below 1.0
C17_Witness ==
    /\ pc = "l140"
    /\ calls = MaxPolls
    /\ encoder_brightness = 100
    /\ last_brightness_value = 100
    /\ brightness # Float(F1_0)
    /\ Close(brightness.mag, F1_0, AccumulatedRounding(1))

\* update_brightness(d) on the pair << brightness, driver scalar >> and
\* update_volume(d) on the pair << volume, last argument sent >>
BrightnessAfter(st, d) ==
    LET new == NewBrightness(st[1], d)
    IN  << new, IF BrightnessChanged(new, st[1]) THEN new ELSE st[2] >>

VolumeAfter(st, d) ==
    LET new == NewVolume(st[1], d)
    IN  << new, IF VolumeChanged(new, st[1]) THEN VolumeScalar(new) ELSE st[2] >>

\* a movement in one direction, in two parts
Splits ==
    { << sign * d1, sign * d2 >> : sign \in {-1, 1}, d1 \in 1 .. MaxSplit,
                                   d2 \in 1 .. MaxSplit }

FClose(a, b, tol) == a.neg = b.neg /\ Close(a.mag, b.mag, tol)

\* C18 as stated: from every reachable state, update(d1) then update(d2), d1
\* and d2 of one sign, leave the parameter and the value last pushed that
\* update(d1 + d2) leaves.
C18_AsStated ==
    pc = "l140" =>
        \A p \in Splits :
            /\ BrightnessAfter(BrightnessAfter(<< brightness, pixels_brightness >>,
                                               p[1]), p[2])
                  = BrightnessAfter(<< brightness, pixels_brightness >>, p[1] + p[2])
            /\ VolumeAfter(VolumeAfter(<< volume, sink_arg >>, p[1]), p[2])
                  = VolumeAfter(<< volume, sink_arg >>, p[1] + p[2])

\* C18, amended: ... volume and the value last sent to the sink are the same;
\* brightness and the value last pushed to the driver are the same up to the
\* rounding of the updates made.
C18_SplitIndependent ==
    pc = "l140" =>
        \A p \in Splits :
            LET two == BrightnessAfter(BrightnessAfter(
                           << brightness, pixels_brightness >>, p[1]), p[2])
                one == BrightnessAfter(<< brightness, pixels_brightness >>,
                                       p[1] + p[2])
                tol == AccumulatedRounding(calls + 2)
            IN  /\ FClose(two[1], one[1], tol)
                /\ FClose(two[2], one[2], tol)
                /\ VolumeAfter(VolumeAfter(<< volume, sink_arg >>, p[1]), p[2])
                      = VolumeAfter(<< volume, sink_arg >>, p[1] + p[2])

\* the brightness knob went up 3 steps before each of two iterations:
\* brightness is what two updates by 3 leave, which one update by 6 from 0.5
\* leaves up to rounding
C18_Witness ==
    /\ pc = "l140"
    /\ calls = 2
    /\ encoder_brightness = 6
    /\ fed_brightness = 6
    /\ brightness = NewBrightness(NewBrightness(Float(F0_5), 3), 3)
    /\ FClose(brightness, NewBrightness(Float(F0_5), 6), AccumulatedRounding(2))
    /\ pixels_brightness = brightness
    /\ volume = 50

====
